---- MODULE Spec2Model ----
(***************************************************************************)
(* ContiguousSegments<T, C> of src/collection_esoterics/contiguous_segment.rs *)
(* as a state machine, followed by the Joel command parser of              *)
(* src/plugins/joel.rs, the WeightedVec of src/weighted_set/mod.rs, the    *)
(* AovVec and AovHashMap of src/collection_esoterics/aov_collection.rs and *)
(* the Registry of src/utils/registry.rs.  Lengths, alignments and positions are f32 in the   *)
(* source; the model draws them from small integers, on which f32          *)
(* arithmetic is exact.  Indices are 0-based as in the source; the         *)
(* sequence `segments` is 1-based, so source index i is segments[i + 1].   *)
(***************************************************************************)
EXTENDS Integers, Sequences, FiniteSets, TLC

VARIABLES segments, total_length, last, steps

\* the Joel under comparison, a command line and the result of parsing it
VARIABLES control, string, parsed

\* the fields of a WeightedVec
VARIABLES vec, total_weight

\* an AovVec and an AovHashMap
VARIABLES aov_vec, aov_map

\* the fields of a Registry
VARIABLES ids, items

vars ==
    <<segments, total_length, last, steps, control, string, parsed, vec,
      total_weight, aov_vec, aov_map, ids, items>>

\* Bounds of the model.
MaxLen == 3
MaxInitCount == 2
MaxSteps == 2

\* The payload type T: two distinguishable values are enough for PartialEq.
Values == {"a", "b"}

\* Option<_>: None, Some(i); a tuple result is the sequence of its fields.
None == <<>>
Some(i) == <<i>>

Segment(value, length) == [length |-> length, value |-> value]

AlignedSegment(alignment, length, value) ==
    [alignment |-> alignment, length |-> length, value |-> value]

ContiguousSegments(segs, total) == [segments |-> segs, total_length |-> total]

count(c) == Len(c.segments)

\* ---- the backing store (AnyVecMut over Vec) ----

\* Vec::insert(index, element), index <= len
VecInsert(s, index, e) ==
    SubSeq(s, 1, index) \o <<e>> \o SubSeq(s, index + 1, Len(s))

\* Vec::remove(index)
VecRemove(s, index) == SubSeq(s, 1, index) \o SubSeq(s, index + 2, Len(s))

\* Vec::drain(lo..hi), lo <= hi <= len
VecDrain(s, lo, hi) == SubSeq(s, 1, lo) \o SubSeq(s, hi + 1, Len(s))

\* Vec::truncate(len)
VecTruncate(s, len) == IF len >= Len(s) THEN s ELSE SubSeq(s, 1, len)

\* Vec::retain_mut with the predicate of clean()
RECURSIVE VecRetainPositive(_)
VecRetainPositive(s) ==
    IF s = <<>> THEN <<>>
    ELSE IF Head(s).length > 0
         THEN <<Head(s)>> \o VecRetainPositive(Tail(s))
         ELSE VecRetainPositive(Tail(s))

\* ---- results of a call ----

Result(segs, total, ret) ==
    [segments |-> segs, total_length |-> total, ret |-> ret, out |-> <<>>,
     panicked |-> FALSE]

\* A panic raised before the call changed anything.
Panic(c) ==
    [segments |-> c.segments, total_length |-> c.total_length, ret |-> None,
     out |-> <<>>, panicked |-> TRUE]

Unchanged(c, ret) == Result(c.segments, c.total_length, ret)

\* ---- re-alignment ----

\* running total of the lengths of segs[from .. to] (1-based, inclusive)
RECURSIVE RunningLength(_, _, _)
RunningLength(segs, from, to) ==
    IF to < from THEN 0
    ELSE RunningLength(segs, from, to - 1) + segs[to].length

\* realign that re-stamps the alignments and leaves total_length as it was
realign_keep_total(c) ==
    ContiguousSegments(
        [i \in 1..count(c) |->
            [c.segments[i] EXCEPT !.alignment = RunningLength(c.segments, 1, i - 1)]],
        c.total_length)

realign(c) ==
    ContiguousSegments(
        [i \in 1..count(c) |->
            [c.segments[i] EXCEPT !.alignment = RunningLength(c.segments, 1, i - 1)]],
        RunningLength(c.segments, 1, count(c)))

\* realign_from_tail seeding the running alignment without the previous
\* segment's length
realign_from_tail_unseeded(c, start) ==
    LET previous_part == c.segments[start]
        running_alignment == previous_part.alignment
    IN  ContiguousSegments(
            [i \in 1..count(c) |->
                IF i <= start THEN c.segments[i]
                ELSE [c.segments[i] EXCEPT !.alignment =
                        running_alignment + RunningLength(c.segments, start + 1, i - 1)]],
            running_alignment + RunningLength(c.segments, start + 1, count(c)))

realign_from_tail(c, start) ==
    LET previous_part == c.segments[start]
        running_alignment == previous_part.alignment + previous_part.length
    IN  ContiguousSegments(
            [i \in 1..count(c) |->
                IF i <= start THEN c.segments[i]
                ELSE [c.segments[i] EXCEPT !.alignment =
                        running_alignment + RunningLength(c.segments, start + 1, i - 1)]],
            running_alignment + RunningLength(c.segments, start + 1, count(c)))

realign_from(c, start) ==
    IF start = 0 THEN realign(c)
    ELSE IF start >= count(c) THEN c
    ELSE realign_from_tail(c, start)

\* ---- position lookup ----

\* the predicate handed to slice::partition_point
pred(seg, length) == (seg.alignment + seg.length) < length

IsPartitioned(segs, length) ==
    \A i, j \in 1..Len(segs) : (i < j /\ pred(segs[j], length)) => pred(segs[i], length)

\* slice::partition_point: the first index whose predicate is false when the
\* slice is partitioned; unspecified (any index 0..len) when it is not.
partition_point(c, length) ==
    IF IsPartitioned(c.segments, length)
    THEN {Cardinality({i \in 1..count(c) : pred(c.segments[i], length)})}
    ELSE 0..count(c)

get_index_at(c, pp) == IF pp < count(c) THEN Some(pp) ELSE None

get_at(c, pp) == IF pp < count(c) THEN Some(pp) ELSE None

get_mut_at(c, pp) == IF pp < count(c) THEN Some(pp) ELSE None

get_ia_at(c, pp) ==
    IF pp < count(c) THEN <<pp, c.segments[pp + 1].alignment>> ELSE None

get_alignment_at(c, pp) ==
    IF pp < count(c) THEN Some(c.segments[pp + 1].alignment) ELSE None

\* ---- structural edits ----

push(c, segment) ==
    ContiguousSegments(
        Append(c.segments,
               AlignedSegment(c.total_length, segment.length, segment.value)),
        c.total_length + segment.length)

\* pop that removes the tail and leaves total_length as it was
pop_keep_total(c) ==
    IF count(c) = 0 THEN Unchanged(c, None)
    ELSE LET popped == c.segments[count(c)]
         IN  [segments |-> SubSeq(c.segments, 1, count(c) - 1),
              total_length |-> c.total_length,
              ret |-> None,
              out |-> <<Segment(popped.value, popped.length)>>,
              panicked |-> FALSE]

pop(c) ==
    IF count(c) = 0 THEN Unchanged(c, None)
    ELSE LET popped == c.segments[count(c)]
         IN  [segments |-> SubSeq(c.segments, 1, count(c) - 1),
              total_length |-> popped.alignment,
              ret |-> None,
              out |-> <<Segment(popped.value, popped.length)>>,
              panicked |-> FALSE]

RECURSIVE from_segments(_)
from_segments(segments_iter) ==
    IF segments_iter = <<>> THEN ContiguousSegments(<<>>, 0)
    ELSE push(from_segments(SubSeq(segments_iter, 1, Len(segments_iter) - 1)),
              segments_iter[Len(segments_iter)])

from_segment(segment) ==
    ContiguousSegments(<<AlignedSegment(0, segment.length, segment.value)>>,
                       segment.length)

\* insert re-aligning only the segments after the new one
insert_realign_after(c, index, segment) ==
    IF index > count(c) THEN Panic(c)
    ELSE LET inserted ==
                ContiguousSegments(
                    VecInsert(c.segments, index,
                              AlignedSegment(0, segment.length, segment.value)),
                    c.total_length)
             r == realign_from(inserted, index + 1)
         IN  Result(r.segments, r.total_length, None)

insert(c, index, segment) ==
    IF index > count(c) THEN Panic(c)
    ELSE LET inserted ==
                ContiguousSegments(
                    VecInsert(c.segments, index,
                              AlignedSegment(0, segment.length, segment.value)),
                    c.total_length)
             r == realign_from(inserted, index)
         IN  Result(r.segments, r.total_length, None)

insert_at(c, pp, segment) ==
    IF count(c) = pp
    THEN LET r == push(c, segment) IN Result(r.segments, r.total_length, Some(pp))
    ELSE LET r == insert(c, pp, segment)
         IN  [r EXCEPT !.ret = IF r.panicked THEN None ELSE Some(pp)]

set_length(c, index, length) ==
    IF index >= count(c) THEN Panic(c)
    ELSE LET set == ContiguousSegments(
                        [c.segments EXCEPT ![index + 1].length = length],
                        c.total_length)
         IN  IF count(c) = 1
             THEN Result(set.segments, length, None)
             ELSE LET r == realign_from(set, index + 1)
                  IN  Result(r.segments, r.total_length, None)

\* truncate that drops the segments and leaves total_length as it was
truncate_keep_total(c, len) ==
    ContiguousSegments(VecTruncate(c.segments, len), c.total_length)

truncate(c, len) ==
    LET segs == VecTruncate(c.segments, len)
    IN  ContiguousSegments(
            segs,
            IF segs # <<>>
            THEN segs[Len(segs)].alignment + segs[Len(segs)].length
            ELSE c.total_length)

\* truncate_at that drops the later segments without shortening the one at `length`
truncate_at_keep_length(c, length, pp) ==
    IF length >= c.total_length THEN c
    ELSE IF pp >= count(c) THEN c
    ELSE truncate(ContiguousSegments(c.segments, length), pp + 1)

truncate_at(c, length, pp) ==
    IF length >= c.total_length THEN c
    ELSE IF pp >= count(c) THEN c
    ELSE truncate(
            ContiguousSegments(
                [c.segments EXCEPT ![pp + 1].length =
                                    length - c.segments[pp + 1].alignment],
                length),
            pp + 1)

\* set_whole that stretches the first segment and keeps the others
set_whole_without_truncate(c, value) ==
    IF count(c) = 0 THEN Unchanged(c, None)
    ELSE Result([c.segments EXCEPT ![1].length = c.total_length, ![1].value = value],
                c.total_length, Some(0))

\* set_whole without the guard for the empty store: indexing the first
\* segment fails
set_whole_unguarded(c, value) ==
    IF count(c) = 0 THEN Panic(c)
    ELSE LET segs == IF count(c) > 1 THEN VecTruncate(c.segments, 1) ELSE c.segments
         IN  Result([segs EXCEPT ![1].length = c.total_length, ![1].value = value],
                    c.total_length, Some(0))

set_whole(c, value) ==
    IF count(c) = 0 THEN Unchanged(c, None)
    ELSE LET segs == IF count(c) > 1 THEN VecTruncate(c.segments, 1) ELSE c.segments
         IN  Result([segs EXCEPT ![1].length = c.total_length, ![1].value = value],
                    c.total_length, Some(0))

split_at(c, length, pp) ==
    IF get_index_at(c, pp) = None THEN Unchanged(c, None)
    ELSE LET low_index == pp
             low_segment == c.segments[low_index + 1]
             high_index == low_index + 1
             high_length == low_segment.length + low_segment.alignment - length
             shortened == [c.segments EXCEPT
                              ![low_index + 1].length = length - low_segment.alignment]
         IN  Result(VecInsert(shortened, high_index,
                              AlignedSegment(length, high_length, low_segment.value)),
                    c.total_length, <<low_index, high_index>>)

\* clean that drops the invalid lengths without re-aligning
clean_without_realign(c) ==
    ContiguousSegments(VecRetainPositive(c.segments), c.total_length)

clean(c) == realign(ContiguousSegments(VecRetainPositive(c.segments), c.total_length))

\* ---- merge ----

\* the loop of merge(): `remove` collects the indices to drop, and a run's
\* first segment is resized when the next different value is met
RECURSIVE merge_loop(_, _, _, _)
merge_loop(segs, previous_index, index, remove) ==
    IF index >= Len(segs) THEN [segments |-> segs, remove |-> remove]
    ELSE IF segs[previous_index + 1].value = segs[index + 1].value
         THEN merge_loop(segs, previous_index, index + 1, remove \cup {index})
         ELSE merge_loop(
                [segs EXCEPT ![previous_index + 1].length =
                    segs[index + 1].alignment - segs[previous_index + 1].alignment],
                index, index + 1, remove)

\* `for index in remove.iter().rev() { self.segments.remove(*index); }`
RECURSIVE merge_remove(_, _)
merge_remove(segs, remove) ==
    IF remove = {} THEN segs
    ELSE LET index == CHOOSE m \in remove : \A n \in remove : n <= m
         IN  merge_remove(VecRemove(segs, index), remove \ {index})

\* merge that resizes the runs and never removes the duplicates
merge_keep_duplicates(c) ==
    IF count(c) < 2 THEN c
    ELSE realign(ContiguousSegments(merge_loop(c.segments, 0, 1, {}).segments,
                                    c.total_length))

merge(c) ==
    IF count(c) < 2 THEN c
    ELSE LET looped == merge_loop(c.segments, 0, 1, {})
         IN  realign(ContiguousSegments(
                        merge_remove(looped.segments, looped.remove),
                        c.total_length))

\* ---- range overwrite ----

\* [Bounded(start_bound), Unbounded]
set_range_from(c, pp, start_bound, value) ==
    IF get_mut_at(c, pp) = None THEN Unchanged(c, None)
    ELSE LET original_total_length == c.total_length
             start_segment == c.segments[pp + 1]
         IN  IF start_segment.alignment = start_bound
             THEN Result([c.segments EXCEPT
                            ![pp + 1].value = value,
                            ![pp + 1].length =
                                original_total_length - start_segment.alignment],
                         c.total_length, Some(pp))
             ELSE LET shrunk == [c.segments EXCEPT ![pp + 1].length =
                                    start_bound - start_segment.alignment]
                      total == start_segment.alignment + shrunk[pp + 1].length
                      r == push(ContiguousSegments(shrunk, total),
                                Segment(value, original_total_length - total))
                  IN  Result(r.segments, r.total_length, Some(count(r) - 1))

\* same segment, start aligned
two_part_split(c, start_index, start_alignment, start_bound, end_bound, value) ==
    LET length == end_bound - start_bound
        moved == [c.segments EXCEPT
                    ![start_index + 1].alignment = @ + length,
                    ![start_index + 1].length = @ - length]
    IN  Result(VecInsert(moved, start_index,
                         AlignedSegment(start_alignment, length, value)),
               c.total_length, Some(start_index))

\* three_part_split with the remainder sized from the old length alone
three_part_split_short_remainder(c, start_index, start_alignment, start_bound, end_bound, value) ==
    LET length == end_bound - start_bound
        low_segment == c.segments[start_index + 1]
        low == [c.segments EXCEPT
                    ![start_index + 1].length = start_bound - low_segment.alignment]
        mid == VecInsert(low, start_index + 1,
                         AlignedSegment(start_bound, length, value))
        high == VecInsert(mid, start_index + 2,
                          AlignedSegment(start_bound + length,
                                         low_segment.length - length,
                                         low_segment.value))
    IN  Result(high, c.total_length, Some(start_index + 1))

\* same segment, start inside it
three_part_split(c, start_index, start_alignment, start_bound, end_bound, value) ==
    LET length == end_bound - start_bound
        low_segment == c.segments[start_index + 1]
        cloned_value == low_segment.value
        original_length == low_segment.length
        low == [c.segments EXCEPT
                    ![start_index + 1].length = start_bound - low_segment.alignment]
        mid == VecInsert(low, start_index + 1,
                         AlignedSegment(start_bound, length, value))
        high == VecInsert(mid, start_index + 2,
                          AlignedSegment(start_bound + length,
                                         start_alignment + original_length - end_bound,
                                         cloned_value))
    IN  Result(high, c.total_length, Some(start_index + 1))

\* `segment.alignment = end_bound; segment.length -= end_bound - segment.alignment;`
shrink_end_segment(segment, end_bound) ==
    LET moved == [segment EXCEPT !.alignment = end_bound]
    IN  [moved EXCEPT !.length = @ - (end_bound - moved.alignment)]

\* different segments, start aligned
aligned_start(c, start_index, end_index, start_bound, end_bound, value) ==
    IF start_index + 1 > end_index THEN Panic(c)
    ELSE LET drained == VecDrain(c.segments, start_index + 1, end_index)
             ranged == [drained EXCEPT
                            ![start_index + 1].length = end_bound - start_bound,
                            ![start_index + 1].value = value]
         IN  Result([ranged EXCEPT
                        ![start_index + 2] = shrink_end_segment(@, end_bound)],
                    c.total_length, Some(start_index))

\* unaligned_adjacent that reports the start segment instead of the new one
unaligned_adjacent_start_index(c, start_index, start_bound, end_bound, value) ==
    LET length == end_bound - start_bound
        low == [c.segments EXCEPT ![start_index + 1].length =
                    start_bound - c.segments[start_index + 1].alignment]
        high == [low EXCEPT ![start_index + 2] =
                    [@ EXCEPT !.alignment = end_bound]]
    IN  Result(VecInsert(high, start_index + 1,
                         AlignedSegment(start_bound, length, value)),
               c.total_length, Some(start_index))

\* different segments, start inside its segment, no full segment in between
unaligned_adjacent(c, start_index, start_bound, end_bound, value) ==
    LET length == end_bound - start_bound
        low == [c.segments EXCEPT ![start_index + 1].length =
                    start_bound - c.segments[start_index + 1].alignment]
        high == [low EXCEPT ![start_index + 2] = shrink_end_segment(@, end_bound)]
    IN  Result(VecInsert(high, start_index + 1,
                         AlignedSegment(start_bound, length, value)),
               c.total_length, Some(start_index + 1))

\* different segments, start inside its segment, one or more segments in between
unaligned_gap(c, start_index, gap, start_bound, end_bound, value) ==
    LET length == end_bound - start_bound
        drained == IF gap > 2
                   THEN VecDrain(c.segments, start_index + 2, start_index + gap)
                   ELSE c.segments
        low == [drained EXCEPT ![start_index + 1].length =
                    start_bound - drained[start_index + 1].alignment]
        mid == [low EXCEPT ![start_index + 2] =
                    AlignedSegment(start_bound, length, value)]
    IN  Result([mid EXCEPT ![start_index + 3] = shrink_end_segment(@, end_bound)],
               c.total_length, Some(start_index + 1))

\* [Some(start), None]: defined start, off-segment end
off_segment_end(c, start_index, start_alignment, start_bound, end_bound, value) ==
    IF start_alignment = start_bound
    THEN LET segs == VecTruncate(c.segments, start_index + 1)
         IN  Result([segs EXCEPT
                        ![start_index + 1].value = value,
                        ![start_index + 1].length = end_bound - start_bound],
                    end_bound, Some(start_index))
    ELSE LET low == [c.segments EXCEPT ![start_index + 1].length =
                        start_bound - c.segments[start_index + 1].alignment]
         IN  IF start_index + 1 < Len(low)
             THEN Result(VecTruncate(
                            [low EXCEPT ![start_index + 2] =
                                AlignedSegment(start_bound, end_bound - start_bound,
                                               value)],
                            start_index + 2),
                         end_bound, Some(start_index + 1))
             ELSE LET r == push(ContiguousSegments(low, end_bound),
                                Segment(value, end_bound - start_bound))
                  IN  Result(r.segments, r.total_length, Some(start_index + 1))

\* set_range_bounded that answers None, instead of failing, when no segment
\* covers the start
set_range_bounded_none_start(c, start_pp, end_pp, start_bound, end_bound, value) ==
    LET start == get_ia_at(c, start_pp)
        end == get_ia_at(c, end_pp)
    IN  IF start = None THEN Unchanged(c, None)
        ELSE IF end = None
        THEN off_segment_end(c, start[1], start[2], start_bound, end_bound, value)
        ELSE LET start_index == start[1]
                 start_alignment == start[2]
                 end_index == end[1]
             IN  IF start_index = end_index
                 THEN IF start_alignment = start_bound
                      THEN two_part_split(c, start_index, start_alignment,
                                          start_bound, end_bound, value)
                      ELSE three_part_split(c, start_index, start_alignment,
                                            start_bound, end_bound, value)
                 ELSE IF start_alignment = start_bound
                 THEN aligned_start(c, start_index, end_index,
                                    start_bound, end_bound, value)
                 ELSE IF end_index < start_index THEN Panic(c)
                 ELSE IF end_index - start_index = 1
                 THEN unaligned_adjacent(c, start_index, start_bound, end_bound, value)
                 ELSE unaligned_gap(c, start_index, end_index - start_index,
                                    start_bound, end_bound, value)

\* [Bounded(start_bound), Bounded(end_bound)]; start_pp and end_pp are the
\* partition points of the two bounds
set_range_bounded(c, start_pp, end_pp, start_bound, end_bound, value) ==
    LET start == get_ia_at(c, start_pp)
        end == get_ia_at(c, end_pp)
    IN  IF start = None THEN Panic(c)
        ELSE IF end = None
        THEN off_segment_end(c, start[1], start[2], start_bound, end_bound, value)
        ELSE LET start_index == start[1]
                 start_alignment == start[2]
                 end_index == end[1]
             IN  IF start_index = end_index
                 THEN IF start_alignment = start_bound
                      THEN two_part_split(c, start_index, start_alignment,
                                          start_bound, end_bound, value)
                      ELSE three_part_split(c, start_index, start_alignment,
                                            start_bound, end_bound, value)
                 ELSE IF start_alignment = start_bound
                 THEN aligned_start(c, start_index, end_index,
                                    start_bound, end_bound, value)
                 ELSE IF end_index < start_index THEN Panic(c)
                 ELSE IF end_index - start_index = 1
                 THEN unaligned_adjacent(c, start_index, start_bound, end_bound, value)
                 ELSE unaligned_gap(c, start_index, end_index - start_index,
                                    start_bound, end_bound, value)

\* [Unbounded, Bounded(_)]: `bounds => todo!(..)`
set_range_to(c, end_bound, value) == Panic(c)

\* ---- the state machine ----

cur == ContiguousSegments(segments, total_length)

\* lengths handed to Segment::new by constructors, push and insert
Lengths == 1..MaxLen

\* lengths handed to set_length
SetLengths == 0..MaxLen

\* positions along the whole handed to the position-based calls
Positions == (0 - 1)..(total_length + 2)

\* indices handed to the index-based calls
Indices == 0..(Len(segments) + 1)

Segments == {Segment(v, l) : v \in Values, l \in Lengths}

Iterators == UNION {[1..n -> Segments] : n \in 0..MaxInitCount}

\* the record of the latest call: its name, arguments, result and the state
\* it was made in
CallRecord(op, args, value, r, pre) ==
    [op |-> op, args |-> args, value |-> value, ret |-> r.ret, out |-> r.out,
     panicked |-> r.panicked, pre |-> pre]

Joel(arguments, command, original_arguments) ==
    [arguments |-> arguments, command |-> command,
     original_arguments |-> original_arguments]

\* no command line is in play
JoelUnused ==
    /\ control = Joel(<<>>, <<>>, None)
    /\ string = <<>>
    /\ parsed = None

\* WeightedVec::new()
WeightedVecNew ==
    /\ vec = <<>>
    /\ total_weight = 0

\* the keys handed to the Aov collections
MaxKey == 2

AovKeys == 0..MaxKey

\* Vec::new() and HashMap::new(); a map holds None for a key it lacks
AovNew ==
    /\ aov_vec = <<>>
    /\ aov_map = [key \in AovKeys |-> None]

RegistryId(source, name) == [source |-> source, name |-> name]

RegistryIds == {RegistryId(source, name) : source \in {"s", "t"}, name \in {"n"}}

\* Registry::new()
RegistryNew ==
    /\ ids = [registry_id \in RegistryIds |-> None]
    /\ items = <<>>

Init ==
    /\ JoelUnused
    /\ WeightedVecNew
    /\ AovNew
    /\ RegistryNew
    /\ \E segments_iter \in Iterators :
        LET contig == from_segments(segments_iter)
        IN  /\ segments = contig.segments
            /\ total_length = contig.total_length
            /\ last = CallRecord("from_segments", <<>>, <<>>,
                                 Unchanged(contig, None),
                                 ContiguousSegments(<<>>, 0))
            /\ steps = 0

\* a caller may call as long as no call has panicked
Callable == steps < MaxSteps /\ ~last.panicked

Call(op, args, value, r) ==
    /\ segments' = r.segments
    /\ total_length' = r.total_length
    /\ last' = CallRecord(op, args, value, r, cur)
    /\ steps' = steps + 1
    /\ UNCHANGED <<control, string, parsed, vec, total_weight>>
    /\ UNCHANGED <<aov_vec, aov_map, ids, items>>

Returns(c) == Result(c.segments, c.total_length, None)

Push ==
    /\ Callable
    /\ \E segment \in Segments :
        Call("push", <<segment.length>>, <<segment.value>>,
             Returns(push(cur, segment)))

Pop == Callable /\ Call("pop", <<>>, <<>>, pop(cur))

Insert ==
    /\ Callable
    /\ \E index \in Indices, segment \in Segments :
        Call("insert", <<index, segment.length>>, <<segment.value>>,
             insert(cur, index, segment))

InsertAt ==
    /\ Callable
    /\ \E length \in Positions, segment \in Segments :
        \E pp \in partition_point(cur, length) :
            Call("insert_at", <<length, segment.length>>, <<segment.value>>,
                 insert_at(cur, pp, segment))

SetLength ==
    /\ Callable
    /\ \E index \in Indices, length \in SetLengths :
        Call("set_length", <<index, length>>, <<>>, set_length(cur, index, length))

Truncate ==
    /\ Callable
    /\ \E len \in Indices :
        Call("truncate", <<len>>, <<>>, Returns(truncate(cur, len)))

TruncateAt ==
    /\ Callable
    /\ \E length \in Positions :
        \E pp \in partition_point(cur, length) :
            Call("truncate_at", <<length>>, <<>>,
                 Returns(truncate_at(cur, length, pp)))

SetWhole ==
    /\ Callable
    /\ \E value \in Values :
        Call("set_whole", <<>>, <<value>>, set_whole(cur, value))

SplitAt ==
    /\ Callable
    /\ \E length \in Positions :
        \E pp \in partition_point(cur, length) :
            Call("split_at", <<length>>, <<>>, split_at(cur, length, pp))

Merge == Callable /\ Call("merge", <<>>, <<>>, Returns(merge(cur)))

Clean == Callable /\ Call("clean", <<>>, <<>>, Returns(clean(cur)))

Realign == Callable /\ Call("realign", <<>>, <<>>, Returns(realign(cur)))

RealignFrom ==
    /\ Callable
    /\ \E start \in Indices :
        Call("realign_from", <<start>>, <<>>, Returns(realign_from(cur, start)))

\* set_range(.., value)
SetRangeFull ==
    /\ Callable
    /\ \E value \in Values :
        Call("set_range_full", <<>>, <<value>>, set_whole(cur, value))

\* set_range(start_bound.., value)
SetRangeFrom ==
    /\ Callable
    /\ \E start_bound \in Positions, value \in Values :
        \E pp \in partition_point(cur, start_bound) :
            Call("set_range_from", <<start_bound>>, <<value>>,
                 set_range_from(cur, pp, start_bound, value))

\* set_range(start_bound..end_bound, value), a non-empty range
SetRangeBounded ==
    /\ Callable
    /\ \E start_bound \in Positions, end_bound \in Positions, value \in Values :
        /\ start_bound < end_bound
        /\ \E start_pp \in partition_point(cur, start_bound),
              end_pp \in partition_point(cur, end_bound) :
                Call("set_range", <<start_bound, end_bound>>, <<value>>,
                     set_range_bounded(cur, start_pp, end_pp,
                                       start_bound, end_bound, value))

\* set_range(..end_bound, value)
SetRangeTo ==
    /\ Callable
    /\ \E end_bound \in Positions, value \in Values :
        Call("set_range_to", <<end_bound>>, <<value>>,
             set_range_to(cur, end_bound, value))

GetAt ==
    /\ Callable
    /\ \E length \in Positions :
        \E pp \in partition_point(cur, length) :
            Call("get_at", <<length>>, <<>>, Unchanged(cur, get_at(cur, pp)))

GetIndexAt ==
    /\ Callable
    /\ \E length \in Positions :
        \E pp \in partition_point(cur, length) :
            Call("get_index_at", <<length>>, <<>>,
                 Unchanged(cur, get_index_at(cur, pp)))

GetIaAt ==
    /\ Callable
    /\ \E length \in Positions :
        \E pp \in partition_point(cur, length) :
            Call("get_ia_at", <<length>>, <<>>, Unchanged(cur, get_ia_at(cur, pp)))

GetMutAt ==
    /\ Callable
    /\ \E length \in Positions :
        \E pp \in partition_point(cur, length) :
            Call("get_mut_at", <<length>>, <<>>, Unchanged(cur, get_mut_at(cur, pp)))

GetAlignmentAt ==
    /\ Callable
    /\ \E length \in Positions :
        \E pp \in partition_point(cur, length) :
            Call("get_alignment_at", <<length>>, <<>>,
                 Unchanged(cur, get_alignment_at(cur, pp)))

Next ==
    \/ Push \/ Pop \/ Insert \/ InsertAt \/ SetLength
    \/ Truncate \/ TruncateAt \/ SetWhole \/ SplitAt
    \/ Merge \/ Clean \/ Realign \/ RealignFrom
    \/ SetRangeFull \/ SetRangeFrom \/ SetRangeBounded \/ SetRangeTo
    \/ GetAt \/ GetIndexAt \/ GetIaAt \/ GetMutAt \/ GetAlignmentAt

Spec == Init /\ [][Next]_vars

\* the first call on a freshly constructed structure
FirstCall == steps = 0

NextSetRange ==
    FirstCall /\ (SetRangeFull \/ SetRangeFrom \/ SetRangeBounded \/ SetRangeTo)

\* one set_range call on every structure from_segments can build
SpecSetRange == Init /\ [][NextSetRange]_vars

NextFirstCall == FirstCall /\ Next

\* one call of any kind on every structure from_segments can build
SpecFirstCall == Init /\ [][NextFirstCall]_vars

\* any call, then clean() on whatever it left
NextClean == NextFirstCall \/ (steps = 1 /\ Clean)

SpecClean == Init /\ [][NextClean]_vars

\* the second of two realign() calls in a row
RealignAgain ==
    /\ steps = 2
    /\ last.op = "realign"
    /\ Call("realign", <<>>, <<>>, Returns(realign(cur)))

NextRealign == NextFirstCall \/ (steps = 1 /\ Realign) \/ RealignAgain

\* any call, then realign() twice on whatever it left
SpecRealign == Init /\ [][NextRealign]_vars

NextInsert == NextFirstCall \/ (steps = 1 /\ Insert)

\* any call, then insert on whatever it left
SpecInsert == Init /\ [][NextInsert]_vars

\* pop() right after a push
PopAfterPush ==
    /\ last.op = "push"
    /\ Call("pop", <<>>, <<>>, pop(cur))

NextPushPop == NextFirstCall \/ (steps = 1 /\ Push) \/ PopAfterPush

\* any call, then push, then pop; or push then pop
SpecPushPop == Init /\ [][NextPushPop]_vars

NextTruncate == NextFirstCall \/ (steps = 1 /\ Truncate)

\* any call, then truncate on whatever it left
SpecTruncate == Init /\ [][NextTruncate]_vars

NextSetWhole == NextFirstCall \/ (steps = 1 /\ (SetWhole \/ SetRangeFull))

\* any call, then set_whole or set_range(..) on whatever it left
SpecSetWhole == Init /\ [][NextSetWhole]_vars

\* the second of two merge() calls in a row
MergeAgain ==
    /\ steps = 2
    /\ last.op = "merge"
    /\ Call("merge", <<>>, <<>>, Returns(merge(cur)))

NextMerge == NextFirstCall \/ (steps = 1 /\ Merge) \/ MergeAgain

\* any call, then merge() twice on whatever it left
SpecMerge == Init /\ [][NextMerge]_vars

NextRealignFrom == NextFirstCall \/ (steps = 1 /\ RealignFrom)

\* any call, then realign_from on whatever it left
SpecRealignFrom == Init /\ [][NextRealignFrom]_vars

\* ---- plugins::joel ----

\* A String is the sequence of its chars.
MaxArguments == 2
MaxArgumentLen == 3

\* char::is_whitespace
Whitespace == {" ", "\t"}

is_whitespace(char) == char \in Whitespace

RECURSIVE trim_start(_)
trim_start(s) ==
    IF s # <<>> /\ is_whitespace(Head(s)) THEN trim_start(Tail(s)) ELSE s

RECURSIVE trim_end(_)
trim_end(s) ==
    IF s # <<>> /\ is_whitespace(s[Len(s)])
    THEN trim_end(SubSeq(s, 1, Len(s) - 1))
    ELSE s

\* str::trim
trim(s) == trim_end(trim_start(s))

\* string.split_once(" ").unwrap_or((string, ""))
split_once(s) ==
    IF \E i \in 1..Len(s) : s[i] = " "
    THEN LET i == CHOOSE i \in 1..Len(s) :
                      s[i] = " " /\ \A j \in 1..(i - 1) : s[j] # " "
         IN  <<SubSeq(s, 1, i - 1), SubSeq(s, i + 1, Len(s))>>
    ELSE <<s, <<>>>>

JoelNew(command) == Joel(<<>>, command, None)

\* JoelParseState; Escape boxes the state it interrupted
Natural == [kind |-> "Natural", delimiter |-> "", previous |-> <<>>]
ExpectWhitespace ==
    [kind |-> "ExpectWhitespace", delimiter |-> "", previous |-> <<>>]
Delimiter(delimiter) ==
    [kind |-> "Delimiter", delimiter |-> delimiter, previous |-> <<>>]
Escape(previous) ==
    [kind |-> "Escape", delimiter |-> "", previous |-> <<previous>>]

escaping(state) == state.kind = "Escape"

\* the state finish_escape leaves; it returns escaping(state)
finish_escape(state) == IF escaping(state) THEN state.previous[1] ELSE state

start_escape(state) == Escape(state)

\* joel.push(replace(&mut argument_builder, String::new())), guarded by
\* !argument_builder.is_empty()
push_argument(p) ==
    IF p.argument_builder # <<>>
    THEN [p EXCEPT !.arguments = Append(@, p.argument_builder),
                   !.argument_builder = <<>>]
    ELSE p

\* one iteration of the 'chars loop; p holds joel.arguments,
\* argument_builder, state and the message of a bail!
parse_char(p, char) ==
    IF p.state = ExpectWhitespace
    THEN IF is_whitespace(char)
         THEN [push_argument(p) EXCEPT !.state = Natural]
         ELSE [p EXCEPT !.error = "Expected whitespace following argument"]
    ELSE IF char = "\\" /\ ~escaping(p.state)
    THEN [p EXCEPT !.state = start_escape(@)]
    ELSE IF /\ char \in {"\"", "'"}
            /\ p.state.kind = "Delimiter"
            /\ char = p.state.delimiter
    THEN [p EXCEPT !.state = ExpectWhitespace]
    ELSE IF char \in {"\"", "'"} /\ p.state = Natural
    THEN IF p.argument_builder # <<>>
         THEN [p EXCEPT !.state = Delimiter(char),
                        !.error = "Malformed delimiter in argument"]
         ELSE [p EXCEPT !.state = Delimiter(char)]
    ELSE IF is_whitespace(char) /\ p.state = Natural
    THEN push_argument(p)
    ELSE [p EXCEPT !.argument_builder = Append(@, char),
                   !.state = finish_escape(@)]

RECURSIVE parse_chars(_, _)
parse_chars(p, chars) ==
    IF chars = <<>> \/ p.error # "" THEN p
    ELSE parse_chars(parse_char(p, Head(chars)), Tail(chars))

\* Result<Joel, anyhow::Error>
Ok(joel) == [ok |-> TRUE, joel |-> <<joel>>, error |-> ""]
Err(error) == [ok |-> FALSE, joel |-> <<>>, error |-> error]

\* <Joel as FromStr>::from_str
from_str(untrimmed) ==
    LET trimmed == trim(untrimmed)
        command == split_once(trimmed)[1]
        arguments_string == trim(split_once(trimmed)[2])
    IN  IF command = <<>> THEN Err("Empty command string")
        ELSE LET p == parse_chars([arguments |-> <<>>,
                                   argument_builder |-> <<>>,
                                   state |-> Natural, error |-> ""],
                                  arguments_string)
             IN  IF p.error # "" THEN Err(p.error)
                 ELSE IF escaping(p.state)
                 THEN Err("Unfinished escape in arguments")
                 ELSE Ok(Joel(push_argument(p).arguments, command,
                              Some(trimmed)))

\* the chars arguments_string writes for one argument, before the quotes
RECURSIVE escape_argument(_)
escape_argument(argument) ==
    IF argument = <<>> THEN <<>>
    ELSE (IF Head(argument) \in {"\"", "'", "\\"} THEN <<"\\">> ELSE <<>>)
         \o <<Head(argument)>> \o escape_argument(Tail(argument))

has_whitespace(argument) ==
    \E i \in 1..Len(argument) : is_whitespace(argument[i])

\* the loop of arguments_string: every argument followed by a space
RECURSIVE write_arguments(_)
write_arguments(arguments) ==
    IF arguments = <<>> THEN <<>>
    ELSE (IF has_whitespace(Head(arguments))
          THEN <<"\"">> \o escape_argument(Head(arguments)) \o <<"\"">>
          ELSE escape_argument(Head(arguments)))
         \o <<" ">> \o write_arguments(Tail(arguments))

\* String::pop
StringPop(s) == IF s = <<>> THEN s ELSE SubSeq(s, 1, Len(s) - 1)

arguments_string(joel) ==
    IF joel.original_arguments # None THEN joel.original_arguments[1]
    ELSE StringPop(write_arguments(joel.arguments))

to_string(joel) == joel.command \o <<" ">> \o arguments_string(joel)

\* the ways the test writes an argument on a command line
Forms == {"bare", "apostrophes", "escaped", "quotes", "quotes_escaped"}

RECURSIVE escape_whitespace(_)
escape_whitespace(argument) ==
    IF argument = <<>> THEN <<>>
    ELSE (IF is_whitespace(Head(argument)) THEN <<"\\">> ELSE <<>>)
         \o <<Head(argument)>> \o escape_whitespace(Tail(argument))

Written(argument, form) ==
    CASE form = "bare" -> argument
      [] form = "apostrophes" -> <<"'">> \o argument \o <<"'">>
      [] form = "escaped" -> escape_whitespace(argument)
      [] form = "quotes" -> <<"\"">> \o argument \o <<"\"">>
      [] form = "quotes_escaped" ->
            <<"\"">> \o escape_whitespace(argument) \o <<"\"">>

\* an argument with whitespace cannot be written bare
FormsOf(argument) ==
    IF has_whitespace(argument) THEN Forms \ {"bare"}
    ELSE {"bare", "apostrophes", "quotes"}

RECURSIVE WrittenArguments(_, _)
WrittenArguments(arguments, forms) ==
    IF arguments = <<>> THEN <<>>
    ELSE <<" ">> \o Written(Head(arguments), Head(forms))
         \o WrittenArguments(Tail(arguments), Tail(forms))

\* the command lines of the test for the Joel `joel`
CommandLines(joel) ==
    {joel.command \o WrittenArguments(joel.arguments, forms) :
        forms \in {f \in [1..Len(joel.arguments) -> Forms] :
                      \A i \in 1..Len(joel.arguments) :
                          f[i] \in FormsOf(joel.arguments[i])}}

ArgumentChars == {"a", " "}

Arguments ==
    UNION {[1..n -> ArgumentChars] : n \in 1..MaxArgumentLen}

Commands == {<<"c">>}

\* the Joel values the test builds as struct literals
Controls ==
    {Joel(arguments, command, None) :
        command \in Commands,
        arguments \in UNION {[1..n -> Arguments] : n \in 0..MaxArguments}}

SegmentsUnused ==
    /\ segments = <<>>
    /\ total_length = 0

JoelInit ==
    /\ control \in Controls
    /\ string = <<>>
    /\ parsed = None
    /\ SegmentsUnused
    /\ WeightedVecNew
    /\ AovNew
    /\ RegistryNew
    /\ last = CallRecord("control", <<>>, <<>>,
                         Unchanged(ContiguousSegments(<<>>, 0), None),
                         ContiguousSegments(<<>>, 0))
    /\ steps = 0

JoelUnchanged ==
    UNCHANGED <<segments, total_length, last, steps, vec, total_weight,
                aov_vec, aov_map, ids, items>>

\* the test writes a command line for control
WriteCommandLine ==
    /\ string = <<>>
    /\ string' \in CommandLines(control)
    /\ UNCHANGED <<control, parsed>>
    /\ JoelUnchanged

\* control.to_string()
JoelToString ==
    /\ string = <<>>
    /\ string' = to_string(control)
    /\ UNCHANGED <<control, parsed>>
    /\ JoelUnchanged

\* Joel::from_str(string)
FromStr ==
    /\ string # <<>>
    /\ parsed = None
    /\ parsed' = Some(from_str(string))
    /\ UNCHANGED <<control, string>>
    /\ JoelUnchanged

NextJoel == WriteCommandLine \/ JoelToString \/ FromStr

SpecJoel == JoelInit /\ [][NextJoel]_vars

\* the Joel values a caller can build for to_string: arguments are any
\* String, the empty one and those with quotes, apostrophes and backslashes
\* included
MaxRoundTripLen == 2

RoundTripChars == {"a", " ", "\"", "'", "\\"}

RoundTripArguments ==
    UNION {[1..n -> RoundTripChars] : n \in 0..MaxRoundTripLen}

RoundTripControls ==
    {Joel(arguments, command, None) :
        command \in Commands,
        arguments \in UNION {[1..n -> RoundTripArguments] : n \in 0..MaxArguments}}

RoundTripInit ==
    /\ control \in RoundTripControls
    /\ string = <<>>
    /\ parsed = None
    /\ SegmentsUnused
    /\ WeightedVecNew
    /\ AovNew
    /\ RegistryNew
    /\ last = CallRecord("control", <<>>, <<>>,
                         Unchanged(ContiguousSegments(<<>>, 0), None),
                         ContiguousSegments(<<>>, 0))
    /\ steps = 0

\* Joel::from_str(control.to_string())
NextRoundTrip == JoelToString \/ FromStr

SpecRoundTrip == RoundTripInit /\ [][NextRoundTrip]_vars

\* ---- weighted_set::WeightedVec ----

\* usize is modelled UsizeBits wide
UsizeBits == 4
MaxWeight == 2

UsizeRange == 2 ^ UsizeBits

\* weight: NonZeroUsize
Weights == 1..MaxWeight

WeightedItem(value, weight) == [value |-> value, weight |-> weight]

WeightedEntry(value, weight, partition_weight) ==
    [value |-> value, weight |-> weight, partition_weight |-> partition_weight]

WeightedVec(entries, total) == [vec |-> entries, total_weight |-> total]

weighted == WeightedVec(vec, total_weight)

\* the result of a call on a WeightedVec and the state it leaves
WeightedResult(w, ret, panicked) ==
    [vec |-> w.vec, total_weight |-> w.total_weight, ret |-> ret,
     out |-> <<>>, panicked |-> panicked]

\* vec.partition_point(|entry| entry.partition_weight < partition_weight):
\* the length of the true prefix when the predicate partitions the slice,
\* any index otherwise
raffle_partition_point(w, partition_weight) ==
    LET n == Len(w.vec)
        holds(i) == w.vec[i].partition_weight < partition_weight
    IN  IF \E k \in 0..n : \A i \in 1..n : holds(i) <=> i <= k
        THEN {k \in 0..n : \A i \in 1..n : holds(i) <=> i <= k}
        ELSE 0..n

\* the entry raffle returns when partition_point answered pp
raffle(w, pp) == IF pp < Len(w.vec) THEN Some(w.vec[pp + 1]) ELSE None

weighted_clear(w) == WeightedResult(WeightedVec(<<>>, 0), None, FALSE)

\* pop; overflow_checks tells whether the build panics on the underflow of
\* `total_weight -= weight` (debug) or wraps (release); the entry has left
\* the Vec before the subtraction
weighted_pop(w, overflow_checks) ==
    IF w.vec = <<>> THEN WeightedResult(w, None, FALSE)
    ELSE LET entry == w.vec[Len(w.vec)]
             popped == SubSeq(w.vec, 1, Len(w.vec) - 1)
         IN  IF entry.weight > w.total_weight /\ overflow_checks
             THEN WeightedResult(WeightedVec(popped, w.total_weight), None, TRUE)
             ELSE WeightedResult(
                      WeightedVec(popped,
                                  (w.total_weight - entry.weight) % UsizeRange),
                      Some(WeightedItem(entry.value, entry.weight)), FALSE)

weighted_push(w, item) ==
    WeightedResult(
        WeightedVec(Append(w.vec,
                           WeightedEntry(item.value, item.weight, w.total_weight)),
                    w.total_weight),
        None, FALSE)

WeightedInit ==
    /\ WeightedVecNew
    /\ SegmentsUnused
    /\ JoelUnused
    /\ AovNew
    /\ RegistryNew
    /\ last = CallRecord("WeightedVec::new", <<>>, <<>>,
                         WeightedResult(WeightedVec(<<>>, 0), None, FALSE),
                         WeightedVec(<<>>, 0))
    /\ steps = 0

MaxWeightedSteps == 3

WeightedCallable == steps < MaxWeightedSteps /\ ~last.panicked

WeightedCall(op, args, value, r) ==
    /\ vec' = r.vec
    /\ total_weight' = r.total_weight
    /\ last' = CallRecord(op, args, value, r, weighted)
    /\ steps' = steps + 1
    /\ UNCHANGED <<segments, total_length, control, string, parsed>>
    /\ UNCHANGED <<aov_vec, aov_map, ids, items>>

WeightedPush ==
    /\ WeightedCallable
    /\ \E value \in Values, weight \in Weights :
        WeightedCall("push", <<weight>>, <<value>>,
                     weighted_push(weighted, WeightedItem(value, weight)))

WeightedPop ==
    /\ WeightedCallable
    /\ \E overflow_checks \in BOOLEAN :
        WeightedCall("pop", <<>>, <<>>, weighted_pop(weighted, overflow_checks))

WeightedClear ==
    /\ WeightedCallable
    /\ WeightedCall("clear", <<>>, <<>>, weighted_clear(weighted))

WeightedRaffle ==
    /\ WeightedCallable
    /\ \E partition_weight \in 0..(UsizeRange - 1) :
        \E pp \in raffle_partition_point(weighted, partition_weight) :
            WeightedCall("raffle", <<partition_weight>>, <<>>,
                         WeightedResult(weighted, raffle(weighted, pp), FALSE))

NextWeighted == WeightedPush \/ WeightedPop \/ WeightedClear \/ WeightedRaffle

SpecWeighted == WeightedInit /\ [][NextWeighted]_vars

\* ---- collection_esoterics::aov_collection ----

\* the const generic SIZE of [Option<V>; SIZE]
SIZE == 2
MaxAovSteps == 3

\* [None; SIZE]
NoneArray == [i \in 1..SIZE |-> None]

\* array.iter().all(|array_option| array_option.is_none())
all_none(array) == \A i \in 1..SIZE : array[i] = None

\* the two collections, the return value of a call and whether it panicked
AovResult(v, m, ret, panicked) ==
    [aov_vec |-> v, aov_map |-> m, ret |-> ret, out |-> <<>>,
     panicked |-> panicked]

\* AovCollection::aov_get over the array aov_get_array found
aov_get(array, index) == IF array = None THEN None ELSE array[1][index + 1]

aov_contains(array, index) == aov_get(array, index) # None

\* <AovVec as AovCollection>::aov_get_array
vec_aov_get_array(v, key) == IF key < Len(v) THEN Some(v[key + 1]) ELSE None

\* the None-filled arrays pushed by `for _ in self.len()..index`
bridge_the_gap(v, index) ==
    v \o [i \in 1..(IF index > Len(v) THEN index - Len(v) ELSE 0) |-> NoneArray]

\* <AovVec as AovCollectionMut>::aov_insert; an index of SIZE or more panics
\* on the array access, which comes after the gap was bridged
vec_aov_insert(v, m, index, key, value) ==
    IF vec_aov_get_array(v, key) # None
    THEN IF index >= SIZE THEN AovResult(v, m, None, TRUE)
         ELSE AovResult([v EXCEPT ![key + 1][index + 1] = Some(value)], m,
                        v[key + 1][index + 1], FALSE)
    ELSE AovResult(bridge_the_gap(v, index), m, None, index >= SIZE)

\* the loop popping the all-None arrays at the tail
RECURSIVE pop_none_arrays(_)
pop_none_arrays(v) ==
    IF v # <<>> /\ all_none(v[Len(v)])
    THEN pop_none_arrays(SubSeq(v, 1, Len(v) - 1))
    ELSE v

\* <AovVec as AovCollectionMut>::aov_remove
vec_aov_remove(v, m, index, key) ==
    IF vec_aov_get_array(v, key) = None THEN AovResult(v, m, None, FALSE)
    ELSE IF index >= SIZE THEN AovResult(v, m, None, TRUE)
    ELSE LET replaced == [v EXCEPT ![key + 1][index + 1] = None]
             length == Len(v)
         IN  AovResult(IF index = length - 1 THEN pop_none_arrays(replaced)
                       ELSE replaced,
                       m, v[key + 1][index + 1], FALSE)

\* <AovVec as AovCollectionMut>::aov_remove_array
vec_aov_remove_array(v, m, key) ==
    IF v = <<>> THEN AovResult(v, m, None, FALSE)
    ELSE LET last_index == Len(v) - 1
         IN  IF key < last_index
             THEN AovResult([v EXCEPT ![key + 1] = NoneArray], m,
                            Some(v[key + 1]), FALSE)
             ELSE IF key = last_index
             THEN AovResult(pop_none_arrays(SubSeq(v, 1, last_index)), m,
                            Some(v[Len(v)]), FALSE)
             ELSE AovResult(v, m, None, FALSE)

\* <AovHashMap as AovCollection>::aov_get_array
map_aov_get_array(m, key) == m[key]

\* <AovHashMap as AovCollectionMut>::aov_insert
map_aov_insert(v, m, index, key, value) ==
    IF index >= SIZE THEN AovResult(v, m, None, TRUE)
    ELSE IF map_aov_get_array(m, key) # None
    THEN AovResult(v, [m EXCEPT ![key][1][index + 1] = Some(value)],
                   m[key][1][index + 1], FALSE)
    ELSE AovResult(v,
                   [m EXCEPT ![key] =
                        Some([NoneArray EXCEPT ![index + 1] = Some(value)])],
                   None, FALSE)

\* <AovHashMap as AovCollectionMut>::aov_remove
map_aov_remove(v, m, index, key) ==
    IF map_aov_get_array(m, key) = None THEN AovResult(v, m, None, FALSE)
    ELSE IF index >= SIZE THEN AovResult(v, m, None, TRUE)
    ELSE LET array == [m[key][1] EXCEPT ![index + 1] = None]
         IN  AovResult(v,
                       [m EXCEPT ![key] =
                            IF all_none(array) THEN None ELSE Some(array)],
                       m[key][1][index + 1], FALSE)

\* <AovHashMap as AovCollectionMut>::aov_remove_array
map_aov_remove_array(v, m, key) ==
    AovResult(v, [m EXCEPT ![key] = None], m[key], FALSE)

AovCollections(v, m) == [aov_vec |-> v, aov_map |-> m]

AovIndices == 0..SIZE

AovInit ==
    /\ AovNew
    /\ RegistryNew
    /\ SegmentsUnused
    /\ JoelUnused
    /\ WeightedVecNew
    /\ last = CallRecord("new", <<>>, <<>>,
                         AovResult(<<>>, <<>>, None, FALSE),
                         AovCollections(<<>>, <<>>))
    /\ steps = 0

AovCallable == steps < MaxAovSteps /\ ~last.panicked

AovCall(op, args, value, r) ==
    /\ aov_vec' = r.aov_vec
    /\ aov_map' = r.aov_map
    /\ last' = CallRecord(op, args, value, r, AovCollections(aov_vec, aov_map))
    /\ steps' = steps + 1
    /\ UNCHANGED <<segments, total_length, control, string, parsed>>
    /\ UNCHANGED <<vec, total_weight, ids, items>>

AovVecInsert ==
    /\ AovCallable
    /\ \E index \in AovIndices, key \in AovKeys, value \in Values :
        AovCall("AovVec::aov_insert", <<index, key>>, <<value>>,
                vec_aov_insert(aov_vec, aov_map, index, key, value))

AovVecRemove ==
    /\ AovCallable
    /\ \E index \in AovIndices, key \in AovKeys :
        AovCall("AovVec::aov_remove", <<index, key>>, <<>>,
                vec_aov_remove(aov_vec, aov_map, index, key))

AovVecRemoveArray ==
    /\ AovCallable
    /\ \E key \in AovKeys :
        AovCall("AovVec::aov_remove_array", <<key>>, <<>>,
                vec_aov_remove_array(aov_vec, aov_map, key))

AovHashMapInsert ==
    /\ AovCallable
    /\ \E index \in AovIndices, key \in AovKeys, value \in Values :
        AovCall("AovHashMap::aov_insert", <<index, key>>, <<value>>,
                map_aov_insert(aov_vec, aov_map, index, key, value))

AovHashMapRemove ==
    /\ AovCallable
    /\ \E index \in AovIndices, key \in AovKeys :
        AovCall("AovHashMap::aov_remove", <<index, key>>, <<>>,
                map_aov_remove(aov_vec, aov_map, index, key))

AovHashMapRemoveArray ==
    /\ AovCallable
    /\ \E key \in AovKeys :
        AovCall("AovHashMap::aov_remove_array", <<key>>, <<>>,
                map_aov_remove_array(aov_vec, aov_map, key))

NextAov ==
    \/ AovVecInsert \/ AovVecRemove \/ AovVecRemoveArray
    \/ AovHashMapInsert \/ AovHashMapRemove \/ AovHashMapRemoveArray

SpecAov == AovInit /\ [][NextAov]_vars

\* ---- utils::registry ----

MaxInsertAll == 2
MaxRegistrySteps == 2

\* Result<usize, RegistryError> and Result<(), RegistryErrors>
RegistryOk(value) == <<"Ok", value>>
RegistryErr(error) == <<"Err", error>>

\* RegistryError::DuplicateId(registry_id)
DuplicateId(registry_id) == [duplicate_id |-> registry_id]

\* the registry left by a call, its return value and, for insert_all, the
\* errors vector it built
RegistryResult(registry_ids, registry_items, ret, errors) ==
    [ids |-> registry_ids, items |-> registry_items, ret |-> ret,
     out |-> errors, panicked |-> FALSE]

\* Registry::clear
registry_clear(registry_ids, registry_items) ==
    RegistryResult([registry_id \in RegistryIds |-> None], <<>>, None, <<>>)

\* Registry::index_of
index_of(registry_ids, registry_id) == registry_ids[registry_id]

\* Registry::insert
registry_insert(registry_ids, registry_items, registry_id, item) ==
    IF registry_ids[registry_id] # None
    THEN RegistryResult(registry_ids, registry_items,
                        RegistryErr(DuplicateId(registry_id)), <<>>)
    ELSE LET index == Len(registry_items)
         IN  RegistryResult([registry_ids EXCEPT ![registry_id] = Some(index)],
                            Append(registry_items, <<registry_id, item>>),
                            RegistryOk(index), <<>>)

\* Result::err
err(result) == IF result[1] = "Err" THEN Some(result[2]) ELSE None

\* the loop of insert_all: errors.push(self.insert(registry_id, item).err())
RECURSIVE insert_each(_, _, _, _)
insert_each(registry_ids, registry_items, iter, errors) ==
    IF iter = <<>>
    THEN RegistryResult(registry_ids, registry_items, None, errors)
    ELSE LET inserted == registry_insert(registry_ids, registry_items,
                                         Head(iter)[1], Head(iter)[2])
         IN  insert_each(inserted.ids, inserted.items, Tail(iter),
                         Append(errors, err(inserted.ret)))

\* Registry::insert_all
insert_all(registry_ids, registry_items, iter) ==
    LET looped == insert_each(registry_ids, registry_items, iter, <<>>)
    IN  RegistryResult(looped.ids, looped.items,
                       IF looped.out = <<>> THEN RegistryOk(<<>>)
                       ELSE RegistryErr("OptionalErrors"),
                       looped.out)

Registry(registry_ids, registry_items) ==
    [ids |-> registry_ids, items |-> registry_items]

\* the (id, item) pairs handed to insert_all
RegistryPairs == RegistryIds \X Values
RegistryIterables ==
    UNION {[1..n -> RegistryPairs] : n \in 0..MaxInsertAll}

RegistryInit ==
    /\ RegistryNew
    /\ AovNew
    /\ SegmentsUnused
    /\ JoelUnused
    /\ WeightedVecNew
    /\ last = CallRecord("new", <<>>, <<>>,
                         RegistryResult(<<>>, <<>>, None, <<>>),
                         Registry(<<>>, <<>>))
    /\ steps = 0

RegistryCallable == steps < MaxRegistrySteps

RegistryCall(op, args, value, r) ==
    /\ ids' = r.ids
    /\ items' = r.items
    /\ last' = CallRecord(op, args, value, r, Registry(ids, items))
    /\ steps' = steps + 1
    /\ UNCHANGED <<segments, total_length, control, string, parsed>>
    /\ UNCHANGED <<vec, total_weight, aov_vec, aov_map>>

RegistryInsert ==
    /\ RegistryCallable
    /\ \E registry_id \in RegistryIds, item \in Values :
        RegistryCall("Registry::insert", <<registry_id>>, <<item>>,
                     registry_insert(ids, items, registry_id, item))

RegistryInsertAll ==
    /\ RegistryCallable
    /\ \E iter \in RegistryIterables :
        RegistryCall("Registry::insert_all", iter, <<>>,
                     insert_all(ids, items, iter))

RegistryClear ==
    /\ RegistryCallable
    /\ RegistryCall("Registry::clear", <<>>, <<>>, registry_clear(ids, items))

NextRegistry == RegistryInsert \/ RegistryInsertAll \/ RegistryClear

SpecRegistry == RegistryInit /\ [][NextRegistry]_vars

\* ---- properties ----

Contiguous(c) ==
    /\ count(c) > 0 => c.segments[1].alignment = 0
    /\ \A i \in 1..(count(c) - 1) :
        c.segments[i].alignment + c.segments[i].length = c.segments[i + 1].alignment

PositiveLengths(c) == \A i \in 1..count(c) : c.segments[i].length > 0

TotalIsSum(c) == c.total_length = RunningLength(c.segments, 1, count(c))

WellFormed(c) == Contiguous(c) /\ PositiveLengths(c) /\ TotalIsSum(c)

\* the values of the segments i with sum(length[0..i)) <= p < sum(length[0..i]);
\* every boundary is an integer, so the unit cell [p, p + 1) stands for each
\* of its positions
CoveringValues(c, p) ==
    {c.segments[i].value : i \in
        {j \in 1..count(c) :
            /\ RunningLength(c.segments, 1, j - 1) <= p
            /\ p < RunningLength(c.segments, 1, j)}}

InRange(c, p) == 0 <= p /\ p <= c.total_length

\* the latest call is set_range(s..e, v) with 0 <= s < e <= total_length
BoundedRangeCall ==
    /\ last.op = "set_range"
    /\ InRange(last.pre, last.args[1])
    /\ InRange(last.pre, last.args[2])
    /\ last.args[1] < last.args[2]

\* the calls C1 ranges over: every call but a set_range with a bounded
\* endpoint outside [0, total_length]
PermittedCall ==
    /\ last.op \in {"set_range"} => BoundedRangeCall
    /\ last.op \in {"set_range_from"} => InRange(last.pre, last.args[1])
    /\ last.op \in {"set_range_to"} => InRange(last.pre, last.args[1])

\* C1: every permitted call made on gap-free segments leaves them gap-free
\* (segments[0].alignment == 0, alignment[i] + length[i] == alignment[i+1]),
\* so the segments are gap-free after any sequence of such calls.
C1_Contiguity ==
    (PermittedCall /\ ~last.panicked /\ Contiguous(last.pre)) => Contiguous(cur)

\* C2: every call, except a truncate that empties the store (and a set_range
\* with an endpoint outside [0, total_length]), made when
\* total_length is the sum of the segment lengths leaves it the sum of the
\* segment lengths.
C2_Conservation ==
    (/\ ~(last.op = "truncate" /\ segments = <<>>)
     /\ PermittedCall
     /\ ~last.panicked
     /\ TotalIsSum(last.pre)) => TotalIsSum(cur)

\* C3: after set_range(s..e, v) with 0 <= s < e <= total_length on non-empty
\* well-formed segments, every position of [s, e) is covered by v and every
\* other position of [0, old total_length) by the value that covered it before.
C3_RangeOverwrite ==
    (BoundedRangeCall /\ count(last.pre) > 0 /\ WellFormed(last.pre)) =>
        \A p \in 0..(last.pre.total_length - 1) :
            CoveringValues(cur, p) =
                IF last.args[1] <= p /\ p < last.args[2]
                THEN {last.value[1]}
                ELSE CoveringValues(last.pre, p)

\* C4: set_range(s..e, v) with 0 <= s < e <= total_length on well-formed
\* segments leaves total_length as it was and equal to the sum of the segment
\* lengths, with consistent alignments, in every branch.
C4_RangeKeepsTotal ==
    (BoundedRangeCall /\ count(last.pre) > 0 /\ WellFormed(last.pre)) =>
        /\ total_length = last.pre.total_length
        /\ TotalIsSum(cur)
        /\ Contiguous(cur)

PositionLookups == {"get_at", "get_index_at", "get_ia_at", "get_mut_at"}

\* C5: on well-formed segments a lookup at 0 <= p < total_length returns the
\* index i with alignment[i] <= p < alignment[i] + length[i], so a position on
\* the boundary between i and i+1 resolves to i+1.
C5_HalfOpenLookup ==
    (/\ last.op \in PositionLookups
     /\ WellFormed(last.pre)
     /\ 0 <= last.args[1]
     /\ last.args[1] < last.pre.total_length) =>
        /\ last.ret # None
        /\ LET found == last.pre.segments[last.ret[1] + 1]
           IN  /\ found.alignment <= last.args[1]
               /\ last.args[1] < found.alignment + found.length

\* C6: on well-formed segments get_index_at(p) and get_at(p) return None for
\* every p >= total_length, p == total_length included, and Some for every
\* 0 <= p < total_length.
C6_OffTheEnd ==
    (last.op \in {"get_index_at", "get_at"} /\ WellFormed(last.pre)) =>
        /\ last.args[1] >= last.pre.total_length => last.ret = None
        /\ (0 <= last.args[1] /\ last.args[1] < last.pre.total_length) =>
                last.ret # None

\* C7: set_range(0..total_length, v) on one or more well-formed segments
\* leaves exactly one segment {alignment 0, length old total_length, value v}
\* and total_length unchanged.
C7_AlignedFullReplace ==
    (/\ BoundedRangeCall
     /\ count(last.pre) >= 1
     /\ WellFormed(last.pre)
     /\ last.args[1] = 0
     /\ last.args[2] = last.pre.total_length) =>
        /\ segments = <<AlignedSegment(0, last.pre.total_length, last.value[1])>>
        /\ total_length = last.pre.total_length

\* s and e lie strictly inside segment i (0-based) of c
StrictlyInside(c, i, s, e) ==
    /\ c.segments[i + 1].alignment < s
    /\ s < e
    /\ e < c.segments[i + 1].alignment + c.segments[i + 1].length

\* C8: when s and e lie strictly inside the same segment i of well-formed
\* segments, set_range(s..e, v) replaces segment i by [alignment[i], s) with
\* the old value, [s, e) with v and [e, old end of i) with the old value,
\* keeps every other segment and total_length, grows the count by 2 and
\* returns Some(i + 1).
C8_ThreeWaySplit ==
    (last.op = "set_range" /\ WellFormed(last.pre)) =>
        \A i \in 0..(count(last.pre) - 1) :
            StrictlyInside(last.pre, i, last.args[1], last.args[2]) =>
                LET old == last.pre.segments[i + 1]
                    s == last.args[1]
                    e == last.args[2]
                IN  /\ ~last.panicked
                    /\ segments =
                        SubSeq(last.pre.segments, 1, i)
                        \o <<AlignedSegment(old.alignment, s - old.alignment, old.value),
                             AlignedSegment(s, e - s, last.value[1]),
                             AlignedSegment(e, old.alignment + old.length - e, old.value)>>
                        \o SubSeq(last.pre.segments, i + 2, count(last.pre))
                    /\ count(cur) = count(last.pre) + 2
                    /\ total_length = last.pre.total_length
                    /\ last.ret = Some(i + 1)

\* a 3-way split was made in a segment that has a neighbour
C8_Witness ==
    /\ last.op = "set_range"
    /\ count(last.pre) >= 2
    /\ StrictlyInside(last.pre, 1, last.args[1], last.args[2])
    /\ count(cur) = count(last.pre) + 2

\* C9: on a single segment of length L and value a, split_at(x) with
\* 0 < x < L followed by merge() yields the single segment {0, L, a} again
\* and total_length == L.
C9_SplitMergeInverse ==
    [][(/\ last.op = "split_at"
        /\ count(last.pre) = 1
        /\ WellFormed(last.pre)
        /\ 0 < last.args[1]
        /\ last.args[1] < last.pre.total_length
        /\ last'.op = "merge") =>
            (/\ segments' = last.pre.segments
             /\ total_length' = last.pre.total_length)]_vars

\* maximal runs of adjacent equal values, each as one segment of the run's
\* combined length
RECURSIVE CoalescedRuns(_)
CoalescedRuns(segs) ==
    IF Len(segs) < 2 THEN segs
    ELSE IF segs[1].value = segs[2].value
         THEN CoalescedRuns(<<[segs[1] EXCEPT !.length = @ + segs[2].length]>>
                            \o SubSeq(segs, 3, Len(segs)))
         ELSE <<segs[1]>> \o CoalescedRuns(Tail(segs))

\* C10: merge() on well-formed segments replaces every maximal run of adjacent
\* equal-valued segments, a run ending at the tail included, by one segment
\* of the run's combined length, and total_length is as before.
C10_MergeRuns ==
    (last.op = "merge" /\ WellFormed(last.pre)) =>
        /\ segments = CoalescedRuns(last.pre.segments)
        /\ total_length = last.pre.total_length

\* the segment of well-formed c that covers position p, 0 <= p < total_length
\* (0-based)
CoveringIndex(c, p) ==
    CHOOSE i \in 0..(count(c) - 1) :
        /\ c.segments[i + 1].alignment <= p
        /\ p < c.segments[i + 1].alignment + c.segments[i + 1].length

\* C11: on well-formed segments truncate_at(x) with 0 < x < total_length
\* leaves total_length == x, the last segment ending at x, the segments before
\* the one that covered x unchanged, none after it, and no gap; with
\* x >= total_length it changes nothing.
C11_TruncateAt ==
    (last.op = "truncate_at" /\ WellFormed(last.pre)) =>
        LET x == last.args[1]
        IN  /\ (0 < x /\ x < last.pre.total_length) =>
                LET k == CoveringIndex(last.pre, x)
                IN  /\ total_length = x
                    /\ segments # <<>>
                    /\ segments[Len(segments)].alignment
                        + segments[Len(segments)].length = x
                    /\ Len(segments) >= k
                    /\ Len(segments) <= k + 1
                    /\ SubSeq(segments, 1, k) = SubSeq(last.pre.segments, 1, k)
                    /\ Contiguous(cur)
            /\ x >= last.pre.total_length => cur = last.pre

\* truncate_at cut the second of two segments strictly inside it
C11_Witness ==
    /\ last.op = "truncate_at"
    /\ count(last.pre) = 2
    /\ last.pre.segments[2].alignment < last.args[1]
    /\ last.args[1] < last.pre.total_length - 1
    /\ total_length = last.args[1]
    /\ Len(segments) = 2

\* the indices (1-based) of the segments of c with a positive length
KeptByClean(c) == {i \in 1..count(c) : c.segments[i].length > 0}

\* the k-th of them, in the original order
KthKept(c, k) ==
    CHOOSE i \in KeptByClean(c) :
        Cardinality({j \in KeptByClean(c) : j <= i}) = k

RangeFromCall ==
    /\ last.op = "set_range_from"
    /\ 0 <= last.args[1]
    /\ last.args[1] < last.pre.total_length

\* C13: on well-formed segments set_range(s.., v) with 0 <= s < total_length
\* leaves a last segment of value v covering [s, old total_length), no
\* segment that started after s, the segments entirely before s unchanged,
\* total_length unchanged and no gap.
C13_RangeFrom ==
    (RangeFromCall /\ WellFormed(last.pre)) =>
        LET s == last.args[1]
            final == segments[Len(segments)]
        IN  /\ segments # <<>>
            /\ final.value = last.value[1]
            /\ final.alignment = s
            /\ final.length = last.pre.total_length - s
            /\ \A i \in 1..Len(segments) : segments[i].alignment <= s
            /\ \A i \in 1..count(last.pre) :
                (last.pre.segments[i].alignment + last.pre.segments[i].length <= s)
                    => (i <= Len(segments) /\ segments[i] = last.pre.segments[i])
            /\ total_length = last.pre.total_length
            /\ Contiguous(cur)

\* C14: when set_range(s..e, v) or set_range(s.., v) with endpoints in
\* [0, total_length] on well-formed segments returns Some(k), the segment at
\* index k has value v and alignment s, and length e - s for a bounded end.
C14_ReturnedIndex ==
    (/\ \/ BoundedRangeCall
        \/ (last.op = "set_range_from" /\ InRange(last.pre, last.args[1]))
     /\ WellFormed(last.pre)
     /\ last.ret # None) =>
        LET k == last.ret[1]
        IN  /\ k < Len(segments)
            /\ segments[k + 1].value = last.value[1]
            /\ segments[k + 1].alignment = last.args[1]
            /\ last.op = "set_range" =>
                    segments[k + 1].length = last.args[2] - last.args[1]

\* a range starting inside one segment and ending in the next returned the
\* index of the inserted segment
C14_Witness ==
    /\ last.op = "set_range"
    /\ count(last.pre) = 2
    /\ 0 < last.args[1]
    /\ last.args[1] < last.pre.segments[2].alignment
    /\ last.pre.segments[2].alignment < last.args[2]
    /\ last.args[2] <= last.pre.total_length
    /\ last.ret = Some(1)
    /\ segments[2].value = last.value[1]

RangeShapes == {"set_range_full", "set_range_from", "set_range"}

\* C15: set_range returns None exactly when the sequence is empty: on an empty
\* sequence every bound shape returns None without failing and leaves it
\* empty, and on non-empty well-formed segments every call with endpoints in
\* [0, total_length] returns Some.
C15_NoneIffEmpty ==
    (last.op \in RangeShapes /\ WellFormed(last.pre)) =>
        /\ (count(last.pre) = 0 /\ (last.args = <<>> \/ 0 <= last.args[1])) =>
            /\ ~last.panicked
            /\ last.ret = None
            /\ segments = <<>>
        /\ (count(last.pre) > 0 /\ PermittedCall) => last.ret # None

\* the claim as worded: a set_range(s..e, v) with s or e beyond total_length
\* fails and leaves the segments and total_length as they were
C16_OffSegmentFails ==
    (/\ last.op = "set_range"
     /\ count(last.pre) > 0
     /\ WellFormed(last.pre)
     /\ 0 <= last.args[1]
     /\ \/ last.args[1] > last.pre.total_length
        \/ last.args[2] > last.pre.total_length) =>
        /\ last.panicked
        /\ cur = last.pre

\* C16 (amended): on well-formed segments set_range(s..e, v) with s beyond
\* total_length fails and leaves the segments and total_length as they were;
\* with 0 <= s <= total_length < e on a non-empty sequence it does not fail:
\* it returns Some and rewrites the tail of the structure.
C16_UncoveredStartFails ==
    (last.op = "set_range" /\ WellFormed(last.pre)) =>
        /\ last.args[1] > last.pre.total_length =>
            /\ last.panicked
            /\ cur = last.pre
        /\ (/\ count(last.pre) > 0
            /\ 0 <= last.args[1]
            /\ last.args[1] <= last.pre.total_length
            /\ last.pre.total_length < last.args[2]) =>
            /\ ~last.panicked
            /\ last.ret # None
            /\ cur # last.pre

\* a set_range starting beyond total_length of a non-empty sequence failed
C16_Witness ==
    /\ last.op = "set_range"
    /\ count(last.pre) > 0
    /\ last.args[1] > last.pre.total_length
    /\ last.panicked

\* C17: after set_length(index, len) on any in-bounds index, the last index of
\* a sequence of two or more segments included, that segment has length len,
\* every other segment keeps its value and length, alignments are the running
\* sums of the lengths and total_length is the sum of the lengths.
C17_SetLength ==
    (/\ last.op = "set_length"
     /\ WellFormed(last.pre)
     /\ last.args[1] < count(last.pre)
     /\ last.args[2] > 0) =>
        /\ ~last.panicked
        /\ count(cur) = count(last.pre)
        /\ \A i \in 1..count(cur) :
            /\ segments[i].value = last.pre.segments[i].value
            /\ segments[i].length =
                IF i = last.args[1] + 1 THEN last.args[2]
                ELSE last.pre.segments[i].length
        /\ Contiguous(cur)
        /\ TotalIsSum(cur)

EmptyCalls ==
    {"set_whole", "pop", "split_at", "get_at", "get_mut_at", "get_index_at",
     "get_ia_at", "get_alignment_at"}

TrimmedArguments(joel) ==
    \A i \in 1..Len(joel.arguments) :
        /\ ~is_whitespace(joel.arguments[i][1])
        /\ ~is_whitespace(joel.arguments[i][Len(joel.arguments[i])])

\* C19: Joel::from_str of a command line equals the Joel built with the same
\* command, the same arguments and original_arguments None, whether an
\* argument with whitespace is written in apostrophes, in quotes, with the
\* whitespace escaped, or in quotes with the whitespace escaped.
C19_FromStrEqualsControl ==
    (/\ string \in CommandLines(control)
     /\ TrimmedArguments(control)
     /\ \E i \in 1..Len(control.arguments) :
            has_whitespace(control.arguments[i])
     /\ parsed # None) =>
        /\ parsed[1].ok
        /\ parsed[1].joel = <<control>>

\* C20: after any sequence of push, pop and clear on a WeightedVec,
\* raffle(w) returns None for every w >= total_weight().
C20_RaffleBeyondTotal ==
    (last.op = "raffle" /\ last.args[1] >= last.pre.total_weight) =>
        last.ret = None

\* C21: when set_range(s..e, v) on well-formed segments has s in an earlier
\* segment than the one e lies strictly inside, the segment that contained e
\* afterwards has alignment e and length (old alignment + old length - e): it
\* loses only its prefix before e and still ends where it ended.
C21_EndSegmentKeepsEnd ==
    (/\ BoundedRangeCall
     /\ WellFormed(last.pre)
     /\ last.args[2] < last.pre.total_length) =>
        LET e == last.args[2]
            old == last.pre.segments[CoveringIndex(last.pre, e) + 1]
        IN  (old.alignment < e /\ last.args[1] < old.alignment) =>
                /\ ~last.panicked
                /\ \E i \in 1..count(cur) :
                    /\ segments[i].alignment = e
                    /\ segments[i].value = old.value
                    /\ segments[i].length = old.alignment + old.length - e

\* C22: on well-formed segments, for every index i, when s == alignment[i]
\* and s < e < alignment[i] + length[i], set_range(s..e, v) replaces segment i
\* by [s, e) with value v followed by [e, old end of i) with the old value,
\* leaves every other segment unchanged and returns Some(i).
C22_AlignedTwoWaySplit ==
    (last.op = "set_range" /\ WellFormed(last.pre)) =>
        \A i \in 0..(count(last.pre) - 1) :
            LET old == last.pre.segments[i + 1]
                s == last.args[1]
                e == last.args[2]
            IN  (s = old.alignment /\ s < e /\ e < old.alignment + old.length) =>
                    /\ ~last.panicked
                    /\ last.ret = Some(i)
                    /\ segments =
                        SubSeq(last.pre.segments, 1, i)
                        \o <<AlignedSegment(s, e - s, last.value[1]),
                             AlignedSegment(e, old.alignment + old.length - e,
                                            old.value)>>
                        \o SubSeq(last.pre.segments, i + 2, count(last.pre))

\* C23: on non-empty well-formed segments and any 0 < e <= total_length,
\* set_range(..e, v) completes without failing, leaves [0, e) covered by v
\* and every later position by its old value, and keeps the segments gap-free
\* and total_length unchanged.
C23_RangeTo ==
    (/\ last.op = "set_range_to"
     /\ WellFormed(last.pre)
     /\ count(last.pre) > 0
     /\ 0 < last.args[1]
     /\ last.args[1] <= last.pre.total_length) =>
        /\ ~last.panicked
        /\ Contiguous(cur)
        /\ total_length = last.pre.total_length
        /\ \A p \in 0..(last.pre.total_length - 1) :
            CoveringValues(cur, p) =
                IF p < last.args[1] THEN {last.value[1]}
                ELSE CoveringValues(last.pre, p)

\* the first n segments of c have the running sums of the lengths as alignments
PrefixAligned(c, n) ==
    \A i \in 1..n : c.segments[i].alignment = RunningLength(c.segments, 1, i - 1)

Min(a, b) == IF a < b THEN a ELSE b

RealignFromCall ==
    /\ last.op = "realign_from"
    /\ PrefixAligned(last.pre, Min(last.args[1], count(last.pre)))

\* the claim as worded: whenever the segments before min(start, count) are
\* aligned, realign_from(start) leaves exactly the state realign() would
C24_RealignFromIsRealign ==
    RealignFromCall => cur = realign(last.pre)

\* C24 (amended): whenever the segments before min(start, count) are aligned,
\* realign_from(start) leaves the alignments realign() would; with start == 0
\* or start < count it also leaves realign()'s total_length, and with
\* 0 < start and start >= count it changes nothing, total_length included.
C24_RealignFromAlignments ==
    RealignFromCall =>
        /\ ~last.panicked
        /\ segments = realign(last.pre).segments
        /\ (last.args[1] = 0 \/ last.args[1] < count(last.pre)) =>
            total_length = realign(last.pre).total_length
        /\ (last.args[1] > 0 /\ last.args[1] >= count(last.pre)) =>
            cur = last.pre

\* realign_from(start) with 0 < start < count repaired a stale alignment
C24_Witness ==
    /\ RealignFromCall
    /\ 0 < last.args[1]
    /\ last.args[1] < count(last.pre)
    /\ last.pre.segments # realign(last.pre).segments
    /\ cur = realign(last.pre)

\* C25: split_at(x) returns None and leaves the segments and total_length
\* unchanged whenever no segment covers x: for every x < 0 and every
\* x >= total_length, x == total_length included.
C25_SplitAtUncovered ==
    (/\ last.op = "split_at"
     /\ WellFormed(last.pre)
     /\ (last.args[1] < 0 \/ last.args[1] >= last.pre.total_length)) =>
        /\ ~last.panicked
        /\ last.ret = None
        /\ cur = last.pre

StrictlyIncreasingAlignments(c) ==
    \A i \in 1..(count(c) - 1) :
        c.segments[i].alignment < c.segments[i + 1].alignment

\* C26: on well-formed segments, split_at(x) with 0 <= x <= total_length and
\* set_range(s..e, v) with 0 <= s < e <= total_length leave every stored
\* segment with a positive length and the alignments strictly increasing.
C26_SplicingKeepsPositive ==
    (/\ WellFormed(last.pre)
     /\ ~last.panicked
     /\ \/ last.op = "split_at" /\ InRange(last.pre, last.args[1])
        \/ BoundedRangeCall) =>
        /\ PositiveLengths(cur)
        /\ StrictlyIncreasingAlignments(cur)

\* C27: on well-formed segments insert_at(p, seg) with p == total_length
\* appends seg at the tail and returns the previous count, and with p the
\* alignment of an interior segment k stores seg at index k starting at p and
\* returns k.
C27_InsertAtPosition ==
    (last.op = "insert_at" /\ WellFormed(last.pre)) =>
        LET p == last.args[1]
            seg == AlignedSegment(p, last.args[2], last.value[1])
        IN  /\ p = last.pre.total_length =>
                /\ ~last.panicked
                /\ last.ret = Some(count(last.pre))
                /\ segments = Append(last.pre.segments, seg)
            /\ \A k \in 1..(count(last.pre) - 1) :
                p = last.pre.segments[k + 1].alignment =>
                    /\ ~last.panicked
                    /\ last.ret = Some(k)
                    /\ segments[k + 1] = seg

\* the sum of the weights of entries[1 .. n]
RECURSIVE WeightSum(_, _)
WeightSum(entries, n) ==
    IF n = 0 THEN 0 ELSE WeightSum(entries, n - 1) + entries[n].weight

\* C28: after any sequence of push, pop and clear on a WeightedVec,
\* total_weight is the sum of the weights of the stored entries, every
\* entry's partition_weight is the sum of the weights of the entries before
\* it, and pop never takes total_weight below zero.
C28_WeightsAddUp ==
    /\ total_weight = WeightSum(vec, Len(vec))
    /\ \A i \in 1..Len(vec) : vec[i].partition_weight = WeightSum(vec, i - 1)
    /\ last.op = "pop" =>
        /\ ~last.panicked
        /\ total_weight <= last.pre.total_weight

\* C29: for the Vec-backed and the hash-map-backed collection alike, after
\* aov_insert(index, key, v) with index < SIZE, whether or not key was
\* present before, aov_get(index, key) returns Some(v) and
\* aov_contains(index, key) is true.
C29_InsertThenGet ==
    (/\ last.op \in {"AovVec::aov_insert", "AovHashMap::aov_insert"}
     /\ last.args[1] < SIZE) =>
        LET array == IF last.op = "AovVec::aov_insert"
                     THEN vec_aov_get_array(aov_vec, last.args[2])
                     ELSE map_aov_get_array(aov_map, last.args[2])
        IN  /\ ~last.panicked
            /\ aov_get(array, last.args[1]) = Some(last.value[1])
            /\ aov_contains(array, last.args[1])

\* the k-th pair handed to insert_all carries an id that was registered
\* before the call or that an earlier pair of the same call carries
DuplicatePair(k) ==
    \/ index_of(last.pre.ids, last.args[k][1]) # None
    \/ \E j \in 1..(k - 1) : last.args[j][1] = last.args[k][1]

\* ids[id] == i exactly when items[i] carries id
IdsMatchItems ==
    \A registry_id \in RegistryIds : \A i \in 0..Len(items) :
        (index_of(ids, registry_id) = Some(i)) <=>
            (i < Len(items) /\ items[i + 1][1] = registry_id)

\* C30: Registry::insert_all returns Ok(()) when every supplied id is new and
\* distinct and returns Err only when at least one individual insert failed
\* with DuplicateId; either way every non-duplicate item is registered, a
\* duplicate leaves the earlier registration untouched, and ids[id] == i
\* holds exactly when items[i] carries id.
C30_InsertAll ==
    last.op = "Registry::insert_all" =>
        /\ (\A k \in 1..Len(last.args) : ~DuplicatePair(k)) =>
                last.ret = RegistryOk(<<>>)
        /\ last.ret[1] = "Err" => \E k \in 1..Len(last.args) : DuplicatePair(k)
        /\ \A k \in 1..Len(last.args) :
                ~DuplicatePair(k) => \E i \in 1..Len(items) : items[i] = last.args[k]
        /\ \A i \in 1..Len(last.pre.items) :
                i <= Len(items) /\ items[i] = last.pre.items[i]
        /\ IdsMatchItems

\* the text the claim gives for one argument: every quote, apostrophe and
\* backslash after a backslash, the whole in double quotes when the argument
\* has whitespace
ClaimedArgument(argument) ==
    LET escaped == escape_argument(argument)
    IN  IF has_whitespace(argument) THEN <<"\"">> \o escaped \o <<"\"">>
        ELSE escaped

RECURSIVE SeparatedBySpaces(_)
SeparatedBySpaces(texts) ==
    IF texts = <<>> THEN <<>>
    ELSE IF Len(texts) = 1 THEN texts[1]
    ELSE texts[1] \o <<" ">> \o SeparatedBySpaces(Tail(texts))

ClaimedText(joel) ==
    joel.command \o <<" ">> \o
    SeparatedBySpaces([i \in 1..Len(joel.arguments) |->
                          ClaimedArgument(joel.arguments[i])])

\* C31: for every Joel with original_arguments None, to_string() is the
\* command, a space and the arguments separated by single spaces, an argument
\* with whitespace in double quotes and every quote, apostrophe and backslash
\* after a backslash; and Joel::from_str(to_string()) yields the same command
\* and the same argument list.
C31_TextRoundTrip ==
    /\ string # <<>> => string = ClaimedText(control)
    /\ parsed # None =>
        /\ parsed[1].ok
        /\ parsed[1].joel[1].command = control.command
        /\ parsed[1].joel[1].arguments = control.arguments

\* x lies strictly inside segment i of c
InsideSegment(c, i, x) ==
    /\ c.segments[i + 1].alignment < x
    /\ x < c.segments[i + 1].alignment + c.segments[i + 1].length

\* C32: if x lies strictly inside segment i, split_at(x) shortens segment i to
\* end at x, inserts at index i+1 a segment with segment i's value, alignment
\* x and the remaining length, returns the indices i and i+1, leaves every
\* other segment as it was, increases count by one and leaves total_length
\* unchanged. Stated for segments of positive lengths at alignments >= 0.
C32_SplitAtInside ==
    (/\ last.op = "split_at"
     /\ PositiveLengths(last.pre)
     /\ \A i \in 1..count(last.pre) : last.pre.segments[i].alignment >= 0) =>
        \A i \in 0..(count(last.pre) - 1) :
            InsideSegment(last.pre, i, last.args[1]) =>
                LET x == last.args[1]
                    old == last.pre.segments[i + 1]
                IN  /\ ~last.panicked
                    /\ last.ret = <<i, i + 1>>
                    /\ Len(segments) = count(last.pre) + 1
                    /\ segments[i + 1] =
                        AlignedSegment(old.alignment, x - old.alignment, old.value)
                    /\ segments[i + 2] =
                        AlignedSegment(x, old.alignment + old.length - x, old.value)
                    /\ \A j \in 0..(i - 1) :
                        segments[j + 1] = last.pre.segments[j + 1]
                    /\ \A j \in (i + 1)..(count(last.pre) - 1) :
                        segments[j + 2] = last.pre.segments[j + 1]
                    /\ total_length = last.pre.total_length

\* C33: from any state realign() sets alignment[i] to the sum of the lengths
\* of segments 0..i-1 and total_length to the sum of all lengths, leaves
\* lengths, values and order unchanged, and a second realign() changes
\* nothing.
C33_Realign ==
    /\ [](last.op = "realign" =>
            /\ Contiguous(cur)
            /\ TotalIsSum(cur)
            /\ Len(segments) = count(last.pre)
            /\ \A i \in 1..Len(segments) :
                /\ segments[i].length = last.pre.segments[i].length
                /\ segments[i].value = last.pre.segments[i].value)
    /\ [][(last.op = "realign" /\ last'.op = "realign") =>
            (segments' = segments /\ total_length' = total_length)]_vars

\* realign() ran on two segments with stale alignments and a stale total
C33_Witness ==
    /\ last.op = "realign"
    /\ count(last.pre) = 2
    /\ ~Contiguous(last.pre)
    /\ ~TotalIsSum(last.pre)
    /\ cur # last.pre

\* C34: on a contiguous sequence, for index <= count, after insert(index, seg)
\* the segment at index is seg with alignment equal to the sum of the lengths
\* before it, the segments before index are unchanged, every segment formerly
\* at or after index sits one place later with its alignment increased by
\* seg's length, and total_length grows by seg's length; for index > count the
\* call panics and leaves the structure unchanged.
C34_Insert ==
    (last.op = "insert" /\ Contiguous(last.pre)) =>
        LET index == last.args[1]
            length == last.args[2]
            old == last.pre.segments
        IN  IF index <= count(last.pre)
            THEN /\ ~last.panicked
                 /\ Len(segments) = Len(old) + 1
                 /\ segments[index + 1] =
                        AlignedSegment(RunningLength(old, 1, index), length,
                                       last.value[1])
                 /\ \A j \in 1..index : segments[j] = old[j]
                 /\ \A j \in (index + 1)..Len(old) :
                        segments[j + 1] =
                            [old[j] EXCEPT !.alignment = @ + length]
                 /\ total_length = last.pre.total_length + length
            ELSE /\ last.panicked
                 /\ cur = last.pre

\* C34 as amended: as above, except that total_length becomes the sum of all
\* lengths after the call, which is total_length + seg's length only when
\* total_length was the sum of the lengths before it.
C34_InsertRealigns ==
    (last.op = "insert" /\ Contiguous(last.pre)) =>
        LET index == last.args[1]
            length == last.args[2]
            old == last.pre.segments
        IN  IF index <= count(last.pre)
            THEN /\ ~last.panicked
                 /\ Len(segments) = Len(old) + 1
                 /\ segments[index + 1] =
                        AlignedSegment(RunningLength(old, 1, index), length,
                                       last.value[1])
                 /\ \A j \in 1..index : segments[j] = old[j]
                 /\ \A j \in (index + 1)..Len(old) :
                        segments[j + 1] =
                            [old[j] EXCEPT !.alignment = @ + length]
                 /\ total_length = RunningLength(old, 1, Len(old)) + length
                 /\ TotalIsSum(last.pre) =>
                        total_length = last.pre.total_length + length
            ELSE /\ last.panicked
                 /\ cur = last.pre

\* insert put a segment between two others whose total_length was stale
C34_Witness ==
    /\ last.op = "insert"
    /\ Contiguous(last.pre)
    /\ ~TotalIsSum(last.pre)
    /\ count(last.pre) = 2
    /\ last.args[1] = 1
    /\ Len(segments) = 3

\* C35: push(seg) stores seg at the tail with alignment equal to the
\* total_length before the call and increases total_length by seg's length;
\* a pop() right after it returns seg and restores exactly the previous
\* segments and total_length.
C35_PushPop ==
    /\ [](last.op = "push" =>
            /\ segments =
                Append(last.pre.segments,
                       AlignedSegment(last.pre.total_length, last.args[1],
                                      last.value[1]))
            /\ total_length = last.pre.total_length + last.args[1])
    /\ [][(last.op = "push" /\ last'.op = "pop") =>
            /\ last'.out = <<Segment(last.value[1], last.args[1])>>
            /\ segments' = last.pre.segments
            /\ total_length' = last.pre.total_length]_vars

\* push then pop ran on two segments whose total_length was stale
C35_Witness ==
    /\ last.op = "pop"
    /\ last.out # <<>>
    /\ count(last.pre) = 3
    /\ count(cur) = 2
    /\ ~TotalIsSum(cur)
    /\ steps = 3

\* C36: truncate(len) keeps exactly the first min(len, count) segments
\* unchanged and drops the rest; when the result is non-empty total_length
\* becomes the new last segment's alignment + length, and when it is empty
\* total_length keeps its previous value.
C36_Truncate ==
    last.op = "truncate" =>
        LET kept == Min(last.args[1], count(last.pre))
        IN  /\ segments = SubSeq(last.pre.segments, 1, kept)
            /\ kept > 0 =>
                total_length = segments[kept].alignment + segments[kept].length
            /\ kept = 0 => total_length = last.pre.total_length

\* truncate(0) emptied two segments and left their total_length behind
C36_Witness ==
    /\ last.op = "truncate"
    /\ count(last.pre) = 2
    /\ segments = <<>>
    /\ total_length > 0

\* C37: on a non-empty contiguous sequence set_whole(v), and set_range(.., v),
\* leaves exactly one segment with alignment 0, length equal to total_length
\* and value v, returns Some(0) and does not change total_length.
C37_SetWhole ==
    (/\ last.op \in {"set_whole", "set_range_full"}
     /\ count(last.pre) > 0
     /\ Contiguous(last.pre)) =>
        /\ ~last.panicked
        /\ segments = <<AlignedSegment(0, total_length, last.value[1])>>
        /\ last.ret = Some(0)
        /\ total_length = last.pre.total_length

\* set_range(.., v) collapsed two segments of another value into one
C37_Witness ==
    /\ last.op = "set_range_full"
    /\ count(last.pre) = 2
    /\ Contiguous(last.pre)
    /\ last.pre.segments[1].value # last.value[1]
    /\ Len(segments) = 1
    /\ segments[1].length = last.pre.total_length

\* the values of the segments, in order
ValuesOf(segs) == [i \in 1..Len(segs) |-> segs[i].value]

\* a sequence of values with adjacent duplicates collapsed
RECURSIVE CollapseAdjacent(_)
CollapseAdjacent(values) ==
    IF Len(values) < 2 THEN values
    ELSE IF values[1] = values[2] THEN CollapseAdjacent(Tail(values))
    ELSE <<values[1]>> \o CollapseAdjacent(Tail(values))

\* C38: after merge() no two adjacent segments have equal values, the
\* sequence of values with adjacent duplicates collapsed is the same as before
\* the call, and a second merge() leaves segments and total_length exactly as
\* the first one left them.
C38_Merge ==
    /\ [](last.op = "merge" =>
            /\ \A i \in 1..(Len(segments) - 1) :
                segments[i].value # segments[i + 1].value
            /\ CollapseAdjacent(ValuesOf(segments)) =
                CollapseAdjacent(ValuesOf(last.pre.segments)))
    /\ [][(last.op = "merge" /\ last'.op = "merge") =>
            (segments' = segments /\ total_length' = total_length)]_vars

\* merge() coalesced a run of two among three segments
C38_Witness ==
    /\ last.op = "merge"
    /\ count(last.pre) = 3
    /\ Len(segments) = 2
    /\ cur # last.pre

====
